---- MODULE Spec2Model ----
(***************************************************************************)
(* Model of refactor_rust.py: the Rust source splitter of take_it_easy.    *)
(*                                                                         *)
(* Text is a sequence of lexical tokens (a Python str, token by token):    *)
(* the punctuation the patterns and the brace scan look at is one token    *)
(* each, and a word is one token.  Positions are 1-based, so Python's      *)
(* offset k is position k + 1 here and content[a:b] is SubSeq(_, a+1, b).   *)
(***************************************************************************)
EXTENDS Integers, Sequences, FiniteSets, TLC

\* ------------------------------------------------------------------ bounds
\* number of chunks the original main.rs is made of in a run of main()
MaxItems == 3
\* number of chunks of a buffer handed directly to the extractors
MaxCallItems == 3
\* deepest brace nesting inside a generated function body
MaxDepth == 10
\* extractor calls made in a row on one buffer
MaxCalls == 2

\* --------------------------------------------------------- string helpers
\* content[a:b] with 1-based, inclusive bounds; like a Python slice it is
\* cut to the text when a bound lies outside it
Slice(s, a, b) ==
    SubSeq(s, IF a < 1 THEN 1 ELSE a, IF b > Len(s) THEN Len(s) ELSE b)

\* content.find(tok, start) for a one-token needle: position or 0 (Python -1)
RECURSIVE find(_, _, _)
find(s, tok, start) ==
    IF start > Len(s) THEN 0
    ELSE IF s[start] = tok THEN start
    ELSE find(s, tok, start + 1)

\* content.find(needle) for a token sequence: first position or 0 (Python -1)
RECURSIVE find_sub(_, _, _)
find_sub(s, needle, start) ==
    IF start + Len(needle) - 1 > Len(s) THEN 0
    ELSE IF SubSeq(s, start, start + Len(needle) - 1) = needle THEN start
    ELSE find_sub(s, needle, start + 1)

RECURSIVE replace_every(_, _)
\* faulty variant of replace_first: content.replace(old, '') without the
\* count deletes every occurrence
replace_every(s, old) ==
    LET p == find_sub(s, old, 1)
    IN  IF p = 0 \/ old = <<>> THEN s
        ELSE SubSeq(s, 1, p - 1)
             \o replace_every(SubSeq(s, p + Len(old), Len(s)), old)

\* content.replace(old, '', 1): delete the first occurrence of old
replace_first(s, old) ==
    LET p == find_sub(s, old, 1)
    IN  IF p = 0 \/ old = <<>> THEN s
        ELSE SubSeq(s, 1, p - 1) \o SubSeq(s, p + Len(old), Len(s))

RECURSIVE DedupFrom(_, _, _)
DedupFrom(ps, k, seen) ==
    IF k > Len(ps) THEN <<>>
    ELSE IF ps[k] \in seen THEN DedupFrom(ps, k + 1, seen)
    ELSE <<ps[k]>> \o DedupFrom(ps, k + 1, seen \cup {ps[k]})

\* a list of positions with every repeated position dropped (first kept)
Dedup(ps) == IF Len(ps) <= 1 THEN ps ELSE DedupFrom(ps, 1, {})

\* --------------------------------------------------- regular expressions
\* The constructors of the pattern language used by the three patterns.
Lit(t)    == [op |-> "lit", tok |-> t]
NotIn(S)  == [op |-> "notin", toks |-> S]
In(S)     == [op |-> "in", toks |-> S]
\* `.` under re.DOTALL: any character, newline included
Dot       == [op |-> "any"]
Cat(ps)   == [op |-> "cat", parts |-> ps]
Star(r)   == [op |-> "star", sub |-> r]
Lazy(r)   == [op |-> "lazy", sub |-> r]
Opt(r)    == [op |-> "opt", sub |-> r]
Plus(r)   == Cat(<<r, Star(r)>>)
\* \s
WS        == In({" ", "\n"})

(* Ends(r, s, i): the positions at which a match of r that starts at i can *)
(* end, in the order Python's backtracking matcher tries them (greedy      *)
(* operators longest first, lazy ones shortest first).  The first entry is *)
(* where re ends the match.  A position that was already tried leads to    *)
(* the same continuations again, so only its first occurrence is kept.     *)
\* whether the one-token pattern r accepts token t
Accepts(r, t) ==
    CASE r.op = "lit"   -> t = r.tok
      [] r.op = "in"    -> t \in r.toks
      [] r.op = "notin" -> t \notin r.toks
      [] r.op = "any"   -> TRUE

OneToken(r) == r.op \in {"lit", "in", "notin", "any"}

\* the position after the longest run of tokens accepted by r from i on
RunEnd(r, s, i) ==
    LET stops == {k \in i..Len(s) : ~Accepts(r, s[k])}
    IN  IF stops = {} THEN Len(s) + 1
        ELSE CHOOSE k \in stops : \A j \in stops : k <= j

RECURSIVE Ends(_, _, _), EndsFrom(_, _, _), CatEnds(_, _, _)
EndsFrom(r, s, ps) ==
    IF ps = <<>> THEN <<>>
    ELSE Ends(r, s, Head(ps)) \o EndsFrom(r, s, Tail(ps))

CatEnds(parts, s, ps) ==
    IF parts = <<>> \/ ps = <<>> THEN ps
    ELSE CatEnds(Tail(parts), s, Dedup(EndsFrom(Head(parts), s, ps)))

Ends(r, s, i) ==
    CASE OneToken(r)    -> IF i <= Len(s) /\ Accepts(r, s[i]) THEN <<i + 1>> ELSE <<>>
      [] r.op = "cat"   -> CatEnds(r.parts, s, <<i>>)
      [] r.op = "opt"   -> Ends(r.sub, s, i) \o <<i>>
      [] r.op = "star"  ->
            IF OneToken(r.sub)
            THEN LET j == RunEnd(r.sub, s, i) IN [k \in 1..(j - i + 1) |-> j + 1 - k]
            ELSE EndsFrom(r, s, Ends(r.sub, s, i)) \o <<i>>
      [] r.op = "lazy"  ->
            IF OneToken(r.sub)
            THEN LET j == RunEnd(r.sub, s, i) IN [k \in 1..(j - i + 1) |-> i + k - 1]
            ELSE <<i>> \o EndsFrom(r, s, Ends(r.sub, s, i))

NoMatch == [start |-> 0, end |-> 0]

\* re.search(pattern, content) from position pos: the leftmost match
RECURSIVE re_search(_, _, _)
re_search(r, s, pos) ==
    IF pos > Len(s) + 1 THEN NoMatch
    ELSE LET e == Ends(r, s, pos)
         IN  IF e # <<>> THEN [start |-> pos, end |-> Head(e)]
             ELSE re_search(r, s, pos + 1)

\* re.finditer(pattern, content): the successive non-overlapping matches
RECURSIVE re_finditer(_, _, _)
re_finditer(r, s, pos) ==
    LET m == re_search(r, s, pos)
    IN  IF m = NoMatch THEN <<>>
        ELSE <<m>> \o re_finditer(r, s, IF m.end > m.start THEN m.end ELSE m.end + 1)

\* ---------------------------------------------------------- the patterns
\* (?:\/\/\/.*\n)*(?:#\[.*\]\n)*  -- doc-comment lines, then attribute lines
DocAttrPrefix ==
    << Star(Cat(<<Lit("///"), Star(Dot), Lit("\n")>>)),
       Star(Cat(<<Lit("#["), Star(Dot), Lit("]"), Lit("\n")>>)) >>

\* (?:<[^>]*>)?
Generics == Opt(Cat(<<Lit("<"), Star(NotIn({">"})), Lit(">")>>))

pattern(function_name) ==
    Cat(DocAttrPrefix \o
        << Opt(Cat(<<Lit("pub"), Plus(WS)>>)),
           Opt(Cat(<<Lit("async"), Plus(WS)>>)),
           Lit("fn"), Plus(WS), Lit(function_name), Star(WS),
           Generics,
           Star(WS), Lit("("), Star(NotIn({")"})), Lit(")"),
           Opt(Cat(<<Star(WS), Lit("->"), Star(WS), Plus(NotIn({"{"}))>>)),
           Star(WS), Lit("{") >>)

\* --------------------------------------------------------- the extractors
RECURSIVE brace_scan_flat(_, _, _)
\* faulty variant of brace_scan: an opening brace inside the body is not
\* counted, so the scan stops at the first closing brace
brace_scan_flat(content_, i, brace_count) ==
    IF i <= Len(content_) /\ brace_count > 0
    THEN brace_scan_flat(content_, i + 1,
                         IF content_[i] = "}" THEN brace_count - 1 ELSE brace_count)
    ELSE [i |-> i, brace_count |-> brace_count]

\* the while loop of extract_function: [i, brace_count] when it exits
RECURSIVE brace_scan(_, _, _)
brace_scan(content_, i, brace_count) ==
    IF i <= Len(content_) /\ brace_count > 0
    THEN brace_scan(content_, i + 1,
                    IF content_[i] = "{" THEN brace_count + 1
                    ELSE IF content_[i] = "}" THEN brace_count - 1
                    ELSE brace_count)
    ELSE [i |-> i, brace_count |-> brace_count]

\* faulty variant of extract_function: when the scan runs off the end of the
\* buffer the unfinished definition is cut off the buffer all the same
extract_function_cut(content_, function_name) ==
    LET match == re_search(pattern(function_name), content_, 1)
        fail  == [ok |-> FALSE, code |-> <<>>, rest |-> content_]
    IN  IF match = NoMatch THEN fail
        ELSE LET start == match.start
                 open  == find(content_, "{", start)
             IN  IF open = 0 THEN fail
                 ELSE LET fin == brace_scan(content_, open + 1, 1)
                      IN  [ok   |-> fin.brace_count = 0,
                           code |-> IF fin.brace_count = 0
                                    THEN Slice(content_, start, fin.i - 1) ELSE <<>>,
                           rest |-> Slice(content_, 1, start - 1)
                                    \o Slice(content_, fin.i, Len(content_))]

\* [ok, code, rest]: ok = FALSE is Python's (None, content)
extract_function(content_, function_name) ==
    LET match == re_search(pattern(function_name), content_, 1)
        fail  == [ok |-> FALSE, code |-> <<>>, rest |-> content_]
    IN  IF match = NoMatch THEN fail
        ELSE LET start == match.start
                 open  == find(content_, "{", start)
             IN  IF open = 0 THEN fail
                 ELSE LET fin == brace_scan(content_, open + 1, 1)
                      IN  IF fin.brace_count = 0
                          THEN [ok   |-> TRUE,
                                code |-> Slice(content_, start, fin.i - 1),
                                rest |-> Slice(content_, 1, start - 1)
                                         \o Slice(content_, fin.i, Len(content_))]
                          ELSE fail

\* (?:pub\s+)?struct\s+NAME\s*(?:<[^>]*>)?\s*\{[^}]*\}  after the prefix
struct_pattern(struct_name) ==
    Cat(DocAttrPrefix \o
        << Opt(Cat(<<Lit("pub"), Plus(WS)>>)),
           Lit("struct"), Plus(WS), Lit(struct_name), Star(WS),
           Generics,
           Star(WS), Lit("{"), Star(NotIn({"}"})), Lit("}") >>)

\* impl(?:<[^>]*>)?\s+NAME(?:<[^>]*>)?\s*\{.*?\n\}
impl_pattern(struct_name) ==
    Cat(<< Lit("impl"), Generics, Plus(WS), Lit(struct_name), Generics,
           Star(WS), Lit("{"), Lazy(Dot), Lit("\n"), Lit("}") >>)

\* match.group(1): the text of a match
group(content_, m) == Slice(content_, m.start, m.end - 1)

RECURSIVE remove_impls_forward(_, _, _, _)
\* faulty variant of remove_impls: the matches are removed lowest offset
\* first, each with the offsets it had before any removal
remove_impls_forward(matches, k, results, content_) ==
    IF k = 0 THEN [results |-> results, rest |-> content_]
    ELSE LET m == matches[Len(matches) - k + 1]
         IN  remove_impls_forward(matches, k - 1,
                                  Append(results, group(content_, m)),
                                  Slice(content_, 1, m.start - 1)
                                      \o Slice(content_, m.end, Len(content_)))

\* the loop `for match in reversed(list(impl_matches))`, k counting down
RECURSIVE remove_impls(_, _, _, _)
remove_impls(matches, k, results, content_) ==
    IF k = 0 THEN [results |-> results, rest |-> content_]
    ELSE remove_impls(matches, k - 1,
                      Append(results, group(content_, matches[k])),
                      Slice(content_, 1, matches[k].start - 1)
                          \o Slice(content_, matches[k].end, Len(content_)))

\* the struct step of extract_struct_with_impl: [results, rest]
extract_struct(content_, struct_name) ==
    LET struct_match == re_search(struct_pattern(struct_name), content_, 1)
    IN  IF struct_match # NoMatch
        THEN [results |-> <<group(content_, struct_match)>>,
              rest    |-> replace_first(content_, group(content_, struct_match))]
        ELSE [results |-> <<>>, rest |-> content_]

\* [results, rest]
extract_struct_with_impl(content_, struct_name) ==
    LET st           == extract_struct(content_, struct_name)
        impl_matches == re_finditer(impl_pattern(struct_name), st.rest, 1)
    IN  remove_impls(impl_matches, Len(impl_matches), st.results, st.rest)

\* ------------------------------------------------- create_module_content
default_imports == << "use crate::test::{Deck, Plateau, Tile};" >>

module_imports ==
    [ neural  |-> << "use tch::{nn, Tensor};",
                     "use tch::nn::{Optimizer, OptimizerConfig};",
                     "use std::collections::HashMap;",
                     "use crate::policy_value_net::{PolicyNet, ValueNet};" >>,
      mcts    |-> << "use std::collections::HashMap;",
                     "use tch::Tensor;",
                     "use rand::Rng;",
                     "use crate::policy_value_net::{PolicyNet, ValueNet};" >>,
      scoring |-> << "use std::collections::HashMap;" >>,
      game    |-> << "use rand::Rng;" >>,
      utils   |-> << "use rand::Rng;" >> ]

\* the code points of the characters of an import line (ord(c) for c in s)
code_points(s) ==
    CASE s = "use crate::policy_value_net::{PolicyNet, ValueNet};" ->
          << 117, 115, 101, 32, 99, 114, 97, 116, 101, 58, 58, 112, 111, 
             108, 105, 99, 121, 95, 118, 97, 108, 117, 101, 95, 110, 
             101, 116, 58, 58, 123, 80, 111, 108, 105, 99, 121, 78, 101, 
             116, 44, 32, 86, 97, 108, 117, 101, 78, 101, 116, 125, 59 >>
      [] s = "use crate::test::{Deck, Plateau, Tile};" ->
          << 117, 115, 101, 32, 99, 114, 97, 116, 101, 58, 58, 116, 101, 
             115, 116, 58, 58, 123, 68, 101, 99, 107, 44, 32, 80, 108, 
             97, 116, 101, 97, 117, 44, 32, 84, 105, 108, 101, 125, 59 >>
      [] s = "use rand::Rng;" ->
          << 117, 115, 101, 32, 114, 97, 110, 100, 58, 58, 82, 110, 103, 
             59 >>
      [] s = "use serde::Serialize;" ->
          << 117, 115, 101, 32, 115, 101, 114, 100, 101, 58, 58, 83, 
             101, 114, 105, 97, 108, 105, 122, 101, 59 >>
      [] s = "use std::collections::HashMap;" ->
          << 117, 115, 101, 32, 115, 116, 100, 58, 58, 99, 111, 108, 
             108, 101, 99, 116, 105, 111, 110, 115, 58, 58, 72, 97, 115, 
             104, 77, 97, 112, 59 >>
      [] s = "use std::fs;" ->
          << 117, 115, 101, 32, 115, 116, 100, 58, 58, 102, 115, 59 >>
      [] s = "use tch::Tensor;" ->
          << 117, 115, 101, 32, 116, 99, 104, 58, 58, 84, 101, 110, 115, 
             111, 114, 59 >>
      [] s = "use tch::nn::{Optimizer, OptimizerConfig};" ->
          << 117, 115, 101, 32, 116, 99, 104, 58, 58, 110, 110, 58, 58, 
             123, 79, 112, 116, 105, 109, 105, 122, 101, 114, 44, 32, 
             79, 112, 116, 105, 109, 105, 122, 101, 114, 67, 111, 110, 
             102, 105, 103, 125, 59 >>
      [] s = "use tch::{nn, Tensor};" ->
          << 117, 115, 101, 32, 116, 99, 104, 58, 58, 123, 110, 110, 44, 
             32, 84, 101, 110, 115, 111, 114, 125, 59 >>

RECURSIVE seq_less(_, _)
\* lexicographic order of two lists of code points
seq_less(a, b) ==
    IF a = <<>> THEN b # <<>>
    ELSE IF b = <<>> THEN FALSE
    ELSE IF Head(a) # Head(b) THEN Head(a) < Head(b)
    ELSE seq_less(Tail(a), Tail(b))

\* a < b for two str values
str_less(a, b) == seq_less(code_points(a), code_points(b))

Range(seq) == {seq[k] : k \in 1..Len(seq)}

RECURSIVE sorted(_)
\* sorted(S) for a set of str values
sorted(S) ==
    IF S = {} THEN <<>>
    ELSE LET least == CHOOSE x \in S : \A y \in S \ {x} : str_less(x, y)
         IN  <<least>> \o sorted(S \ {least})

\* faulty variant of sorted_set: the duplicates are dropped but the lines
\* stay in the order in which they were collected
sorted_set_unordered(xs) == DedupFrom(xs, 1, {})

\* sorted(set(xs)) for lists of import lines
sorted_set(xs) == sorted(Range(xs))

RECURSIVE import_lines(_)
import_lines(imps) ==
    IF imps = <<>> THEN <<>> ELSE <<Head(imps), "\n">> \o import_lines(Tail(imps))

RECURSIVE item_lines_joined(_)
\* faulty variant of item_lines: one newline after an item, no blank line
item_lines_joined(items_) ==
    IF items_ = <<>> THEN <<>>
    ELSE Head(items_) \o <<"\n">> \o item_lines_joined(Tail(items_))

RECURSIVE item_lines(_)
item_lines(items) ==
    IF items = <<>> THEN <<>> ELSE Head(items) \o <<"\n", "\n">> \o item_lines(Tail(items))

\* f"// {module_name}.rs - Module pour {module_name}\n\n"
header(module_name) ==
    <<"//", " ", module_name, ".rs", " ", "-", " ", "Module", " ", "pour", " ",
      module_name, "\n", "\n">>

\* imports = <<>> stands for Python's None (both are falsy at `if imports`)
create_module_content(module_name, extracted_items_, imports) ==
    LET all_imports == default_imports
                       \o (IF module_name \in DOMAIN module_imports
                           THEN module_imports[module_name] ELSE <<>>)
                       \o imports
    IN  header(module_name) \o import_lines(sorted_set(all_imports)) \o <<"\n">>
               \o item_lines(extracted_items_)

\* ------------------------------------------------------------------ main
\* the keys of `modules` in insertion order
module_names == <<"game", "scoring", "mcts", "neural", "utils">>

\* the plan of main()
modules ==
    [ game    |-> [functions |-> << "create_plateau_empty", "create_shuffle_deck",
                                    "is_plateau_full", "get_legal_moves",
                                    "generate_tile_image_names", "is_game_over",
                                    "apply_move", "placer_tile" >>,
                   structs   |-> <<>>],
      scoring |-> [functions |-> << "result", "calculate_line_completion_bonus",
                                    "enhanced_position_evaluation",
                                    "compute_alignment_score",
                                    "compute_potential_scores" >>,
                   structs   |-> <<>>],
      mcts    |-> [functions |-> << "mcts_find_best_position_for_tile_with_nn",
                                    "simulate_games", "local_lookahead" >>,
                   structs   |-> << "MCTSResult" >>],
      neural  |-> [functions |-> << "convert_plateau_to_tensor",
                                    "enhanced_gradient_clipping",
                                    "robust_state_normalization",
                                    "train_network_with_game_data",
                                    "compute_global_stats", "normalize_input",
                                    "calculate_n_step_returns", "huber_loss",
                                    "calculate_prediction_accuracy" >>,
                   structs   |-> <<>>],
      utils   |-> [functions |-> << "random_index", "load_game_data",
                                    "save_game_data", "serialize_tensor",
                                    "tensor_to_vec", "deserialize_game_data",
                                    "append_to_results_file" >>,
                   structs   |-> <<>>] ]

\* paths under src/
main_file        == <<"main", ".rs">>
backup_file      == <<"main", ".rs", ".backup">>
module_file(m)   == <<m, ".rs">>
Paths            == {main_file, backup_file} \cup {module_file(m) : m \in Range(module_names)}

NoFile           == [exists |-> FALSE, data |-> <<>>]
File(data)       == [exists |-> TRUE, data |-> data]

\* "\n".join(line(m) for m in modules.keys()), over the keys from k on
RECURSIVE join_lines(_, _)
join_lines(lines, k) ==
    IF k > Len(lines) THEN <<>>
    ELSE lines[k] \o (IF k < Len(lines) THEN <<"\n">> ELSE <<>>) \o join_lines(lines, k + 1)

mod_line(m) == <<"mod", " ", m, ";">>
use_line(m) == <<"use", " ", m, "::", "*", ";">>

module_declarations ==
    join_lines([k \in 1..Len(module_names) |-> mod_line(module_names[k])], 1)

module_uses ==
    join_lines([k \in 1..Len(module_names) |-> use_line(module_names[k])], 1)

anchor == <<"mod", " ", "test", ";">>

\* the insertion of the declarations into the buffer
insert_declarations(content_) ==
    LET import_section_end == find_sub(content_, anchor, 1)
    IN  IF import_section_end # 0
        THEN LET line_end == find(content_, "\n", import_section_end)
             IN  IF line_end # 0
                 THEN Slice(content_, 1, line_end)
                      \o <<"\n">> \o module_declarations \o <<"\n", "\n">>
                      \o module_uses \o <<"\n">>
                      \o Slice(content_, line_end + 1, Len(content_))
                 ELSE content_
        ELSE module_declarations \o <<"\n", "\n">> \o module_uses
             \o <<"\n", "\n">> \o content_

VARIABLES
    files,            \* the files under src/: path -> NoFile or File(text)
    pc,               \* where main() is
    content,          \* the buffer
    mod_i,            \* position of module_name in module_names
    fn_i,             \* position of func_name in items['functions']
    st_i,             \* position of struct_name in items['structs']
    extracted_items,  \* of the module being processed
    log,              \* what main() printed, one entry per print
    original,         \* history: main.rs as it was when the run started
    fslog,            \* history: the file-system writes, in order
    module_items,     \* history: module -> the fragments extracted for it
    before_insert,    \* history: the buffer as the extraction phase left it
    fcall,            \* history: the last extract_function call
    scall,            \* history: the last extract_struct_with_impl call
    ncalls,           \* history: number of extractor calls so far
    built             \* history: the last create_module_content call

vars == <<files, pc, content, mod_i, fn_i, st_i, extracted_items, log,
          original, fslog, module_items, before_insert, fcall, scall, ncalls,
          built>>

\* ------------------------------------------------------- generated inputs
Fn(name, body) == <<"fn", " ", name, "(", ")", " ", "{">> \o body \o <<"}", "\n">>

RECURSIVE Nest(_)
\* a body with d levels of nested braces
Nest(d) == IF d = 0 THEN <<"x">> ELSE <<"{">> \o Nest(d - 1) \o <<"}">>

DocLine    == <<"///", "doc", "\n">>
AttrLine   == <<"#[", "inline", "]", "\n">>
TextLine   == <<"x", "\n">>
AnchorLine == anchor \o <<"\n">>
StructDef(name) == <<"pub", " ", "struct", " ", name, " ", "{", "f", "}", "\n">>
ImplDef(name, body) ==
    <<"impl", " ", name, " ", "{", "\n">> \o Fn(body, <<>>) \o <<"}", "\n">>
\* a function whose body never closes
TruncFn(name) == <<"fn", " ", name, "(", ")", " ", "{", "{", "x", "}", "\n">>

RECURSIVE Concat(_)
Concat(chunks) == IF chunks = <<>> THEN <<>> ELSE Head(chunks) \o Concat(Tail(chunks))

SeqsUpTo(S, n) == UNION {[1..k -> S] : k \in 0..n}

MainChunks ==
    { AnchorLine, anchor, DocLine, TextLine,
      Fn("apply_move", <<>>), Fn("huber_loss", Nest(1)),
      StructDef("MCTSResult"), ImplDef("MCTSResult", "new") }

MainBuffers == {Concat(cs) : cs \in SeqsUpTo(MainChunks, MaxItems)}

\* again: the call was made for the name, and on the remaining buffer, of a
\* successful extract_function call; before: the buffer of that earlier call
NoCall == [made |-> FALSE, arg |-> <<>>, name |-> "", ok |-> FALSE,
           code |-> <<>>, results |-> <<>>, rest |-> <<>>, again |-> FALSE,
           before |-> <<>>]

NoBuild == [made |-> FALSE, module_name |-> "", extracted_items |-> <<>>,
            imports |-> <<>>, text |-> <<>>]

Init ==
    /\ \E f \in {NoFile} \cup {File(b) : b \in MainBuffers} :
          /\ files = [p \in Paths |-> IF p = main_file THEN f ELSE NoFile]
          /\ original = f
    /\ pc = "start"
    /\ content = <<>>
    /\ mod_i = 1 /\ fn_i = 1 /\ st_i = 1
    /\ extracted_items = <<>>
    /\ log = <<>>
    /\ fslog = <<>>
    /\ module_items = [m \in Range(module_names) |-> <<>>]
    /\ before_insert = <<>>
    /\ fcall = NoCall /\ scall = NoCall
    /\ ncalls = 0
    /\ built = NoBuild

module_name == module_names[mod_i]
items       == modules[module_name]

\* faulty variant of CheckExists: the backup file is opened for writing
\* before main.rs is looked for
CheckExistsAfterBackup ==
    /\ pc = "start"
    /\ files' = [files EXCEPT ![backup_file] = File(files[main_file].data)]
    /\ fslog' = Append(fslog, backup_file)
    /\ IF files[main_file].exists
       THEN pc' = "backup" /\ UNCHANGED log
       ELSE pc' = "aborted" /\ log' = Append(log, [msg |-> "main_missing", name |-> ""])
    /\ UNCHANGED <<content, mod_i, fn_i, st_i, extracted_items, original,
                   module_items, before_insert, fcall, scall, ncalls, built>>

\* if not main_file.exists(): print; return
CheckExists ==
    /\ pc = "start"
    /\ IF files[main_file].exists
       THEN pc' = "backup" /\ UNCHANGED log
       ELSE pc' = "aborted" /\ log' = Append(log, [msg |-> "main_missing", name |-> ""])
    /\ UNCHANGED <<files, content, mod_i, fn_i, st_i, extracted_items, original,
                   fslog, module_items, before_insert, fcall, scall, ncalls,
                   built>>

\* faulty variant of Backup: main.rs is moved to the backup path
BackupByMove ==
    /\ pc = "backup"
    /\ files' = [files EXCEPT ![backup_file] = files[main_file],
                              ![main_file] = NoFile]
    /\ fslog' = Append(fslog, backup_file)
    /\ log' = Append(log, [msg |-> "backup", name |-> ""])
    /\ pc' = "read"
    /\ UNCHANGED <<content, mod_i, fn_i, st_i, extracted_items, original,
                   module_items, before_insert, fcall, scall, ncalls, built>>

\* shutil.copy2(main_file, backup_file)
Backup ==
    /\ pc = "backup"
    /\ files' = [files EXCEPT ![backup_file] = files[main_file]]
    /\ fslog' = Append(fslog, backup_file)
    /\ log' = Append(log, [msg |-> "backup", name |-> ""])
    /\ pc' = "read"
    /\ UNCHANGED <<content, mod_i, fn_i, st_i, extracted_items, original,
                   module_items, before_insert, fcall, scall, ncalls, built>>

\* content = f.read(); the first module's loop starts
ReadMain ==
    /\ pc = "read"
    /\ content' = files[main_file].data
    /\ pc' = "functions"
    /\ mod_i' = 1 /\ fn_i' = 1 /\ st_i' = 1
    /\ extracted_items' = <<>>
    /\ UNCHANGED <<files, log, original, fslog, module_items, before_insert,
                   fcall, scall, ncalls, built>>

\* one iteration of `for func_name in items['functions']`
ExtractFunctionStep ==
    /\ pc = "functions"
    /\ fn_i <= Len(items.functions)
    /\ \E func_name \in {items.functions[fn_i]} :
       \E r \in {extract_function(content, func_name)} :
           /\ content' = r.rest
           /\ fcall' = [made |-> TRUE, arg |-> content, name |-> func_name,
                        ok |-> r.ok, code |-> r.code, results |-> <<>>,
                        rest |-> r.rest,
                        again |-> /\ fcall.made /\ fcall.ok
                                  /\ fcall.name = func_name
                                  /\ fcall.rest = content,
                        before |-> fcall.arg]
           /\ IF r.ok /\ r.code # <<>>
              THEN /\ extracted_items' = Append(extracted_items, r.code)
                   /\ module_items' = [module_items EXCEPT
                                          ![module_name] = Append(@, r.code)]
                   /\ log' = Append(log, [msg |-> "function_extracted", name |-> func_name])
              ELSE /\ UNCHANGED <<extracted_items, module_items>>
                   /\ log' = Append(log, [msg |-> "function_not_found", name |-> func_name])
    /\ fn_i' = fn_i + 1
    /\ ncalls' = ncalls + 1
    /\ UNCHANGED <<files, pc, mod_i, st_i, original, fslog, before_insert, scall,
                   built>>

\* faulty variant of FunctionsDone: the module file is written as soon as the
\* functions of the module are extracted, before its structs are looked for
FunctionsDoneWriting ==
    /\ pc = "functions"
    /\ fn_i > Len(items.functions)
    /\ pc' = "structs"
    /\ st_i' = 1
    /\ IF extracted_items # <<>>
       THEN /\ files' = [files EXCEPT ![module_file(module_name)] =
                            File(create_module_content(module_name, extracted_items, <<>>))]
            /\ fslog' = Append(fslog, module_file(module_name))
       ELSE UNCHANGED <<files, fslog>>
    /\ UNCHANGED <<content, mod_i, fn_i, extracted_items, log, original,
                   module_items, before_insert, fcall, scall, ncalls, built>>

\* the function loop of a module is exhausted
FunctionsDone ==
    /\ pc = "functions"
    /\ fn_i > Len(items.functions)
    /\ pc' = "structs"
    /\ st_i' = 1
    /\ UNCHANGED <<files, content, mod_i, fn_i, extracted_items, log, original,
                   fslog, module_items, before_insert, fcall, scall, ncalls,
                   built>>

\* one iteration of `for struct_name in items['structs']`
ExtractStructStep ==
    /\ pc = "structs"
    /\ st_i <= Len(items.structs)
    /\ \E struct_name \in {items.structs[st_i]} :
       \E r \in {extract_struct_with_impl(content, struct_name)} :
           /\ content' = r.rest
           /\ scall' = [made |-> TRUE, arg |-> content, name |-> struct_name,
                        ok |-> r.results # <<>>, code |-> <<>>,
                        results |-> r.results, rest |-> r.rest,
                        again |-> FALSE, before |-> <<>>]
           /\ extracted_items' = extracted_items \o r.results
           /\ module_items' = [module_items EXCEPT ![module_name] = @ \o r.results]
           /\ IF r.results # <<>>
              THEN log' = Append(log, [msg |-> "struct_extracted", name |-> struct_name])
              ELSE UNCHANGED log
    /\ st_i' = st_i + 1
    /\ ncalls' = ncalls + 1
    /\ UNCHANGED <<files, pc, mod_i, fn_i, original, fslog, before_insert, fcall,
                   built>>

\* the struct loop of a module is exhausted
StructsDone ==
    /\ pc = "structs"
    /\ st_i > Len(items.structs)
    /\ pc' = "write"
    /\ UNCHANGED <<files, content, mod_i, fn_i, st_i, extracted_items, log,
                   original, fslog, module_items, before_insert, fcall, scall, ncalls,
                   built>>

\* faulty variant of WriteModule: the module file is written whether or not
\* anything was extracted
WriteModuleAlways ==
    /\ pc = "write"
    /\ \E module_content \in
           {create_module_content(module_name, extracted_items, <<>>)} :
          /\ files' = [files EXCEPT ![module_file(module_name)] =
                          File(module_content)]
          /\ built' = [made |-> TRUE, module_name |-> module_name,
                       extracted_items |-> extracted_items,
                       imports |-> <<>>, text |-> module_content]
    /\ fslog' = Append(fslog, module_file(module_name))
    /\ log' = Append(log, [msg |-> "module_created", name |-> module_name])
    /\ IF mod_i < Len(module_names)
       THEN /\ mod_i' = mod_i + 1
            /\ fn_i' = 1
            /\ extracted_items' = <<>>
            /\ pc' = "functions"
            /\ UNCHANGED before_insert
       ELSE /\ pc' = "declare"
            /\ before_insert' = content
            /\ UNCHANGED <<mod_i, fn_i, extracted_items>>
    /\ UNCHANGED <<content, st_i, original, module_items, fcall, scall, ncalls>>

\* `if extracted_items:` write the module file; then the next module
WriteModule ==
    /\ pc = "write"
    /\ IF extracted_items # <<>>
       THEN \E module_content \in
                 {create_module_content(module_name, extracted_items, <<>>)} :
              /\ files' = [files EXCEPT ![module_file(module_name)] =
                              File(module_content)]
              /\ built' = [made |-> TRUE, module_name |-> module_name,
                           extracted_items |-> extracted_items,
                           imports |-> <<>>, text |-> module_content]
              /\ fslog' = Append(fslog, module_file(module_name))
              /\ log' = Append(log, [msg |-> "module_created", name |-> module_name])
       ELSE UNCHANGED <<files, fslog, log, built>>
    /\ IF mod_i < Len(module_names)
       THEN /\ mod_i' = mod_i + 1
            /\ fn_i' = 1
            /\ extracted_items' = <<>>
            /\ pc' = "functions"
            /\ UNCHANGED before_insert
       ELSE /\ pc' = "declare"
            /\ before_insert' = content
            /\ UNCHANGED <<mod_i, fn_i, extracted_items>>
    /\ UNCHANGED <<content, st_i, original, module_items, fcall, scall, ncalls>>

\* the declarations are computed and inserted into the buffer
InsertDeclarations ==
    /\ pc = "declare"
    /\ content' = insert_declarations(content)
    /\ pc' = "rewrite"
    /\ UNCHANGED <<files, mod_i, fn_i, st_i, extracted_items, log, original,
                   fslog, module_items, before_insert, fcall, scall, ncalls,
                   built>>

\* faulty variant of RewriteMain: the backup is refreshed from the rewritten
\* main.rs
RewriteMainAndBackup ==
    /\ pc = "rewrite"
    /\ files' = [files EXCEPT ![main_file] = File(content),
                              ![backup_file] = File(content)]
    /\ fslog' = Append(fslog, main_file)
    /\ log' = Append(log, [msg |-> "main_updated", name |-> ""])
    /\ pc' = "report"
    /\ UNCHANGED <<content, mod_i, fn_i, st_i, extracted_items, original,
                   module_items, before_insert, fcall, scall, ncalls, built>>

\* with open(main_file, 'w') ...: f.write(content)
RewriteMain ==
    /\ pc = "rewrite"
    /\ files' = [files EXCEPT ![main_file] = File(content)]
    /\ fslog' = Append(fslog, main_file)
    /\ log' = Append(log, [msg |-> "main_updated", name |-> ""])
    /\ pc' = "report"
    /\ UNCHANGED <<content, mod_i, fn_i, st_i, extracted_items, original,
                   module_items, before_insert, fcall, scall, ncalls, built>>

\* the files listed under "Fichiers créés": every module file that exists
RECURSIVE created_files(_, _)
created_files(fs, k) ==
    IF k > Len(module_names) THEN <<>>
    ELSE (IF fs[module_file(module_names[k])].exists
          THEN <<[msg |-> "file", name |-> module_names[k]]>> ELSE <<>>)
         \o created_files(fs, k + 1)

Report ==
    /\ pc = "report"
    /\ log' = log \o created_files(files, 1)
    /\ pc' = "done"
    /\ UNCHANGED <<files, content, mod_i, fn_i, st_i, extracted_items, original,
                   fslog, module_items, before_insert, fcall, scall, ncalls,
                   built>>

Next ==
    \/ CheckExists
    \/ Backup
    \/ ReadMain
    \/ ExtractFunctionStep
    \/ FunctionsDone
    \/ ExtractStructStep
    \/ StructsDone
    \/ WriteModule
    \/ InsertDeclarations
    \/ RewriteMain
    \/ Report

Spec == Init /\ [][Next]_vars

\* ------------------------------------------- the extractors on their own
\* pub async fn NAME<T>(a) -> R { body }
FullFn(name, body) ==
    <<"pub", " ", "async", " ", "fn", " ", name, "<", "T", ">", "(", "a", ")",
      " ", "->", " ", "R", " ", "{">> \o body \o <<"}", "\n">>

CallChunks ==
    { DocLine, AttrLine, TextLine,
      Fn("foo", Nest(1)), FullFn("bar", <<>>), TruncFn("foo"),
      StructDef("S"), ImplDef("S", "a"), ImplDef("S", "b") }

\* a function foo with every nesting depth, alone or between other text
NestBuffers ==
    { pre \o Fn("foo", Nest(d)) \o post :
        d \in 0..MaxDepth,
        pre \in {<<>>, TextLine, AttrLine},
        post \in {<<>>, TextLine, Fn("bar", <<>>)} }

\* two functions foo, alone, after a line of text, or after a documented
\* function bar
DupBuffers ==
    { pre \o Fn("foo", Nest(1)) \o mid \o Fn("foo", <<>>) :
        pre \in {<<>>, TextLine, DocLine \o FullFn("bar", <<>>)},
        mid \in {<<>>, TextLine} }

CallBuffers ==
    {Concat(cs) : cs \in SeqsUpTo(CallChunks, MaxCallItems)}
        \cup NestBuffers \cup DupBuffers

CallFunctionNames == {"foo", "bar"}
CallStructNames   == {"S"}

InitCalls ==
    /\ content \in CallBuffers
    /\ original = File(content)
    /\ files = [p \in Paths |-> NoFile]
    /\ pc = "calls"
    /\ mod_i = 1 /\ fn_i = 1 /\ st_i = 1
    /\ extracted_items = <<>>
    /\ log = <<>>
    /\ fslog = <<>>
    /\ module_items = [m \in Range(module_names) |-> <<>>]
    /\ before_insert = <<>>
    /\ fcall = NoCall /\ scall = NoCall
    /\ ncalls = 0
    /\ built = NoBuild

\* func_code, content = extract_function(content, func_name)
CallExtractFunction ==
    /\ pc = "calls"
    /\ ncalls < MaxCalls
    /\ \E func_name \in CallFunctionNames :
          \E r \in {extract_function(content, func_name)} :
              /\ content' = r.rest
              /\ fcall' = [made |-> TRUE, arg |-> content, name |-> func_name,
                           ok |-> r.ok, code |-> r.code, results |-> <<>>,
                           rest |-> r.rest,
                           again |-> /\ fcall.made /\ fcall.ok
                                     /\ fcall.name = func_name
                                     /\ fcall.rest = content,
                           before |-> fcall.arg]
              /\ extracted_items' =
                    IF r.ok /\ r.code # <<>> THEN Append(extracted_items, r.code)
                    ELSE extracted_items
    /\ ncalls' = ncalls + 1
    /\ UNCHANGED <<files, pc, mod_i, fn_i, st_i, log, original, fslog,
                   module_items, before_insert, scall, built>>

\* struct_items, content = extract_struct_with_impl(content, struct_name)
CallExtractStruct ==
    /\ pc = "calls"
    /\ ncalls < MaxCalls
    /\ \E struct_name \in CallStructNames :
          \E r \in {extract_struct_with_impl(content, struct_name)} :
              /\ content' = r.rest
              /\ scall' = [made |-> TRUE, arg |-> content, name |-> struct_name,
                           ok |-> r.results # <<>>, code |-> <<>>,
                           results |-> r.results, rest |-> r.rest,
                           again |-> FALSE, before |-> <<>>]
              /\ extracted_items' = extracted_items \o r.results
    /\ ncalls' = ncalls + 1
    /\ UNCHANGED <<files, pc, mod_i, fn_i, st_i, log, original, fslog,
                   module_items, before_insert, fcall, built>>

NextCalls == CallExtractFunction \/ CallExtractStruct

SpecCalls == InitCalls /\ [][NextCalls]_vars

\* ------------------------------------- create_module_content on its own
MaxBuildItems   == 2
MaxExtraImports == 2

BuildModuleNames == Range(module_names) \cup {"other"}

\* fragments as the extractors return them: no newline at the end, possibly
\* some inside
BuildItems ==
    { <<"fn", " ", "foo", "(", ")", " ", "{", "}">>,
      <<"impl", " ", "S", " ", "{", "\n", "}">>,
      <<"pub", " ", "struct", " ", "S", ";">> }

\* import lines a caller may pass: new ones, one of the defaults and one of
\* the per-module lines
ExtraImports ==
    { "use std::fs;", "use serde::Serialize;", "use rand::Rng;",
      "use crate::test::{Deck, Plateau, Tile};" }

\* the arguments of the call are drawn here; the call is still to be made
InitBuild ==
    /\ \E m \in BuildModuleNames :
       \E its \in SeqsUpTo(BuildItems, MaxBuildItems) :
       \E imps \in SeqsUpTo(ExtraImports, MaxExtraImports) :
           built = [made |-> FALSE, module_name |-> m, extracted_items |-> its,
                    imports |-> imps, text |-> <<>>]
    /\ pc = "build"
    /\ content = <<>>
    /\ original = NoFile
    /\ files = [p \in Paths |-> NoFile]
    /\ mod_i = 1 /\ fn_i = 1 /\ st_i = 1
    /\ extracted_items = <<>>
    /\ log = <<>>
    /\ fslog = <<>>
    /\ module_items = [m \in Range(module_names) |-> <<>>]
    /\ before_insert = <<>>
    /\ fcall = NoCall /\ scall = NoCall
    /\ ncalls = 0

\* module_content = create_module_content(module_name, extracted_items, imports)
CallCreateModuleContent ==
    /\ pc = "build"
    /\ ~built.made
    /\ built' = [built EXCEPT
                    !.made = TRUE,
                    !.text = create_module_content(built.module_name,
                                                   built.extracted_items,
                                                   built.imports)]
    /\ UNCHANGED <<files, pc, content, mod_i, fn_i, st_i, extracted_items, log,
                   original, fslog, module_items, before_insert, fcall, scall,
                   ncalls>>

NextBuild == CallCreateModuleContent

SpecBuild == InitBuild /\ [][NextBuild]_vars

\* ------------------------------ main() in a directory with earlier output
MaxStaleItems == 1

\* the modules whose file may be left over from an earlier run
StaleModules == {"game", "utils"}

StaleText == <<"//", " ", "old", "\n">>

StaleBuffers == {Concat(cs) : cs \in SeqsUpTo(MainChunks, MaxStaleItems)}

\* src/ before the run: main.rs, and module files of some of the modules
InitStale ==
    /\ \E f \in {NoFile} \cup {File(b) : b \in StaleBuffers} :
       \E S \in SUBSET StaleModules :
          /\ files = [p \in Paths |->
                        IF p = main_file THEN f
                        ELSE IF \E m \in S : p = module_file(m) THEN File(StaleText)
                        ELSE NoFile]
          /\ original = f
    /\ pc = "start"
    /\ content = <<>>
    /\ mod_i = 1 /\ fn_i = 1 /\ st_i = 1
    /\ extracted_items = <<>>
    /\ log = <<>>
    /\ fslog = <<>>
    /\ module_items = [m \in Range(module_names) |-> <<>>]
    /\ before_insert = <<>>
    /\ fcall = NoCall /\ scall = NoCall
    /\ ncalls = 0
    /\ built = NoBuild

SpecStale == InitStale /\ [][Next]_vars

\* ============================================================ properties
FnCallOk == fcall.made /\ fcall.ok

\* the declarations `fn <name>` that occur in a text
DeclaredIn(text) ==
    {text[k + 2] : k \in {j \in 1..(Len(text) - 2) : text[j] = "fn" /\ text[j + 1] = " "}}

\* C1: a successful extract_function(buffer, name) returns text that holds
\* the declaration `fn name` and the declaration of no other function.
C1_ExtractsOnlyNamed ==
    FnCallOk => DeclaredIn(fcall.code) = {fcall.name}

\* where the match of the function pattern starts in the buffer of the call
MatchStart == re_search(pattern(fcall.name), fcall.arg, 1).start

\* number of `{` minus number of `}` in text[a..b]
Depth(text, a, b) ==
    Cardinality({k \in a..b : text[k] = "{"}) - Cardinality({k \in a..b : text[k] = "}"})

\* C2: on success with match start s, the extracted text is buffer[s..e)
\* where e follows the first `}` that balances the first `{` at or after s,
\* and the remaining buffer is buffer[0..s) followed by buffer[e..end).
C2_BraceBalancedSpan ==
    FnCallOk =>
        \E s \in {MatchStart} :
        \E b \in s..Len(fcall.arg) :
        \E c \in b..Len(fcall.arg) :
            /\ fcall.arg[b] = "{"
            /\ \A k \in s..(b - 1) : fcall.arg[k] # "{"
            /\ Depth(fcall.arg, b, c) = 0
            /\ \A k \in b..(c - 1) : Depth(fcall.arg, b, k) > 0
            /\ fcall.code = SubSeq(fcall.arg, s, c)
            /\ fcall.rest = SubSeq(fcall.arg, 1, s - 1)
                            \o SubSeq(fcall.arg, c + 1, Len(fcall.arg))

\* the deepest brace nesting reached in a text
MaxNesting(text) ==
    CHOOSE d \in 0..Len(text) :
        /\ \A k \in 1..Len(text) : Depth(text, 1, k) <= d
        /\ text # <<>> => \E k \in 1..Len(text) : Depth(text, 1, k) = d

\* C2 witness: a function whose body nests MaxDepth levels of braces was cut
\* out from between other text.
C2_Witness ==
    /\ FnCallOk
    /\ MaxNesting(fcall.code) = MaxDepth + 1
    /\ MatchStart > 1
    /\ Len(fcall.rest) > MatchStart - 1

\* whether the struct extractor has anything to find in a buffer
NothingOfStruct(buf, name) ==
    /\ re_search(struct_pattern(name), buf, 1) = NoMatch
    /\ re_finditer(impl_pattern(name), buf, 1) = <<>>

\* C3: a failed extract_function returns the buffer it was given, and
\* extract_struct_with_impl that finds neither the struct nor an impl block
\* returns no items and the buffer it was given.
C3_FailureKeepsBuffer ==
    /\ fcall.made /\ ~fcall.ok => fcall.rest = fcall.arg /\ fcall.code = <<>>
    /\ scall.made /\ NothingOfStruct(scall.arg, scall.name)
          => scall.results = <<>> /\ scall.rest = scall.arg

\* C3 witness: the pattern matched a function whose braces never close, so
\* the scan failed, and a struct call found nothing, on a non-empty buffer.
C3_Witness ==
    /\ fcall.made /\ ~fcall.ok /\ MatchStart # 0
    /\ scall.made /\ scall.results = <<>> /\ scall.arg # <<>>

\* the fragments collected for all modules so far, in plan order
RECURSIVE AllFragments(_)
AllFragments(k) ==
    IF k > Len(module_names) THEN <<>>
    ELSE module_items[module_names[k]] \o AllFragments(k + 1)

RECURSIVE TotalLen(_)
TotalLen(seqs) == IF seqs = <<>> THEN 0 ELSE Len(Head(seqs)) + TotalLen(Tail(seqs))

RECURSIVE IsShuffle(_, _)
\* text is an order-preserving interleaving of the parts: every position of
\* text belongs to exactly one part, and every part is used up
IsShuffle(text, parts) ==
    IF text = <<>> THEN \A k \in 1..Len(parts) : parts[k] = <<>>
    ELSE \E k \in 1..Len(parts) :
            /\ parts[k] # <<>>
            /\ Head(parts[k]) = Head(text)
            /\ IsShuffle(Tail(text), [parts EXCEPT ![k] = Tail(@)])

ExtractionPhase == pc \in {"functions", "structs", "write", "declare"}

\* C4: during the extraction phase the buffer and the collected fragments
\* together hold every character of the original exactly once: their lengths
\* add up to the original's, and the original is the buffer with the
\* fragments' characters put back in their places.
C4_NothingLostOrDuplicated ==
    ExtractionPhase =>
        /\ Len(content) + TotalLen(AllFragments(1)) = Len(original.data)
        /\ IsShuffle(original.data, <<content>> \o AllFragments(1))

\* C4 witness: a function, a struct and an impl block have all been removed
\* and something is left in the buffer.
C4_Witness ==
    /\ pc = "declare"
    /\ Len(AllFragments(1)) >= 3
    /\ module_items["mcts"] # <<>>
    /\ content # <<>>

\* what the struct step leaves, and the impl matches found in it
AfterStruct == extract_struct(scall.arg, scall.name)
ImplMatches == re_finditer(impl_pattern(scall.name), AfterStruct.rest, 1)

\* C5: the returned list is the struct (when found) followed by the impl
\* blocks in file order.
C5_ImplsInFileOrder ==
    scall.made =>
        \E st \in {AfterStruct} :
        \E ms \in {re_finditer(impl_pattern(scall.name), st.rest, 1)} :
            scall.results = st.results \o [k \in 1..Len(ms) |-> group(st.rest, ms[k])]

RECURSIVE KeepPositions(_, _, _)
\* the tokens of text at the positions of Keep, by rising position
KeepPositions(text, Keep, k) ==
    IF k > Len(text) THEN <<>>
    ELSE (IF k \in Keep THEN <<text[k]>> ELSE <<>>) \o KeepPositions(text, Keep, k + 1)

\* C6: every impl block found is removed and returned, and the remaining
\* buffer equals the pre-removal buffer with all matched spans dropped at
\* once.
C6_ReverseRemovalEqualsOnePass ==
    scall.made =>
        \E st \in {AfterStruct} :
        \E ms \in {re_finditer(impl_pattern(scall.name), st.rest, 1)} :
            /\ Len(scall.results) = Len(st.results) + Len(ms)
            /\ \A k \in 1..Len(ms) :
                  \E j \in 1..Len(scall.results) : scall.results[j] = group(st.rest, ms[k])
            /\ scall.rest =
                  KeepPositions(st.rest,
                                {p \in 1..Len(st.rest) :
                                    \A k \in 1..Len(ms) : p < ms[k].start \/ p >= ms[k].end},
                                1)

\* C6 witness: three impl blocks at rising offsets were removed.
C6_Witness ==
    /\ scall.made
    /\ Len(ImplMatches) = 3
    /\ ImplMatches[1].start < ImplMatches[2].start
    /\ ImplMatches[2].start < ImplMatches[3].start
    /\ Len(scall.rest) = Len(scall.arg) - TotalLen(scall.results)

Rewritten == pc \in {"rewrite", "report", "done"}

\* whether a module file was written in this run
Produced(m) == \E k \in 1..Len(fslog) : fslog[k] = module_file(m)

\* C7: the `mod` and `use` lines in the rewritten buffer name exactly the
\* modules for which a file was written in this run.
C7_DeclaresProducedModules ==
    Rewritten =>
        \A m \in Range(module_names) :
            /\ find_sub(content, mod_line(m), 1) # 0 <=> Produced(m)
            /\ find_sub(content, use_line(m), 1) # 0 <=> Produced(m)

\* the last position of the line that holds position p of text
LineEnd(text, p) ==
    CHOOSE e \in p..Len(text) :
        /\ text[e] = "\n" \/ e = Len(text)
        /\ \A k \in p..(e - 1) : text[k] # "\n"

\* whether block holds the declaration lines and the import lines
HoldsDeclarations(block) ==
    /\ find_sub(block, module_declarations, 1) # 0
    /\ find_sub(block, module_uses, 1) # 0

\* C8: the rewritten buffer is the buffer of the extraction phase with the
\* declaration and import lines put right after the line of the first
\* `mod test;`, also when that line ends the buffer without a newline, and
\* at the very start when there is no `mod test;`.
C8_DeclarationsInserted ==
    Rewritten =>
        \E a \in {find_sub(before_insert, anchor, 1)} :
        \E cut \in {IF a = 0 THEN 0 ELSE LineEnd(before_insert, a)} :
        \E added \in {Len(content) - Len(before_insert)} :
            /\ added > 0
            /\ SubSeq(content, 1, cut) = SubSeq(before_insert, 1, cut)
            /\ HoldsDeclarations(SubSeq(content, cut + 1, cut + added))
            /\ SubSeq(content, cut + added + 1, Len(content))
                  = SubSeq(before_insert, cut + 1, Len(before_insert))

\* how often a path was written
Writes(path) == Cardinality({k \in 1..Len(fslog) : fslog[k] = path})

\* whether the module at position k of the plan has had its turn
Finished(k) == k < mod_i \/ pc \in {"declare", "rewrite", "report", "done"}

\* C9: once a module has had its turn, its file has been written exactly
\* once if a fragment was extracted for it and not at all otherwise; no file
\* is written for a module before.
C9_FileIffFragments ==
    \A k \in 1..Len(module_names) :
        \E m \in {module_names[k]} :
            Writes(module_file(m))
                = (IF Finished(k) /\ module_items[m] # <<>> THEN 1 ELSE 0)

\* C9 witness: a finished run in which one module got fragments and a file
\* and another got neither.
C9_Witness ==
    /\ pc = "done"
    /\ module_items["game"] # <<>> /\ Writes(module_file("game")) = 1
    /\ module_items["utils"] = <<>> /\ Writes(module_file("utils")) = 0

\* C10: when main.rs does not exist nothing is written: no backup, no module
\* file, no main.rs.
C10_MissingOriginalNoEffect ==
    ~original.exists =>
        /\ fslog = <<>>
        /\ \A p \in Paths : ~files[p].exists

\* C10 witness: the run on a missing main.rs has ended.
C10_Witness == ~original.exists /\ pc = "aborted"

\* C11: the backup is the first thing written, before the buffer is read, and
\* from then on, through every module-file write and the rewrite of main.rs,
\* the backup file holds what main.rs held when the run started.
C11_BackupHoldsOriginal ==
    /\ pc \in {"start", "backup"} => fslog = <<>> /\ content = <<>>
    /\ pc \in {"read", "functions", "structs", "write", "declare", "rewrite",
               "report", "done"} =>
          /\ fslog # <<>> /\ fslog[1] = backup_file
          /\ Writes(backup_file) = 1
          /\ files[backup_file] = original

\* C11 witness: a finished run that wrote a module file and changed main.rs,
\* with the backup still equal to the original.
C11_Witness ==
    /\ pc = "done"
    /\ \E m \in Range(module_names) : Produced(m)
    /\ files[main_file] # original
    /\ files[backup_file] = original

\* the import lines the call of `built` has to render
ExpectedImports ==
    Range(default_imports)
        \cup (IF built.module_name \in DOMAIN module_imports
              THEN Range(module_imports[built.module_name]) ELSE {})
        \cup Range(built.imports)

\* the tokens before the first import line
HeaderLen == Len(header(built.module_name))

\* the position in the rendered text of the k-th import line
ImportAt(k) == HeaderLen + 2 * k - 1

\* C12: the import lines of the rendered text are exactly the distinct
\* members of the default set, the set of the module when the module name
\* is a recognised one, and the extra imports; each stands once on a line of
\* its own and the lines ascend strictly in lexicographic order.
C12_ImportsDistinctSorted ==
    built.made =>
        \E n \in {Cardinality(ExpectedImports)} :
            /\ Len(built.text) >= ImportAt(n) + 2
            /\ \A k \in 1..n : /\ built.text[ImportAt(k)] \in ExpectedImports
                               /\ built.text[ImportAt(k) + 1] = "\n"
            /\ {built.text[ImportAt(k)] : k \in 1..n} = ExpectedImports
            /\ \A k \in 1..(n - 1) :
                  str_less(built.text[ImportAt(k)], built.text[ImportAt(k + 1)])
            /\ built.text[ImportAt(n) + 2] = "\n"

\* C12 witness: a recognised module called with extra imports that repeat
\* each other and a line of the module's own set.
C12_Witness ==
    /\ built.made
    /\ built.module_name = "mcts"
    /\ built.imports = <<"use rand::Rng;", "use std::fs;">>
    /\ Cardinality(ExpectedImports) = 6

\* C12 witness of the unrecognised case: only the default and the extras.
C12_WitnessOther ==
    /\ built.made
    /\ built.module_name = "other"
    /\ built.imports = <<"use std::fs;", "use std::fs;">>
    /\ Cardinality(ExpectedImports) = 2

\* the places of a text where `fn name` is declared
Declarations(text, name) ==
    {j \in 1..(Len(text) - 2) :
        text[j] = "fn" /\ text[j + 1] = " " /\ text[j + 2] = name}

\* C13, in the case of a buffer that declares `fn name` once: after a
\* successful extract_function call for the name, the next call for that
\* name on the remaining buffer finds nothing.
C13_SecondCallNotFound ==
    /\ fcall.made /\ fcall.again
    /\ Cardinality(Declarations(fcall.before, fcall.name)) = 1
    => ~fcall.ok

\* how many entries of the log report one of the outcomes for a name
Outcomes(msgs, name) ==
    Cardinality({k \in 1..Len(log) : log[k].msg \in msgs /\ log[k].name = name})

\* C14: when the extraction of every module has finished, the log holds for
\* every function name and every struct name of the plan exactly one outcome
\* entry, found or not found.
C14_OneOutcomePerName ==
    pc \in {"declare", "rewrite", "report", "done"} =>
        \A m \in Range(module_names) :
            /\ \A k \in 1..Len(modules[m].functions) :
                  Outcomes({"function_extracted", "function_not_found"},
                           modules[m].functions[k]) = 1
            /\ \A k \in 1..Len(modules[m].structs) :
                  Outcomes({"struct_extracted", "struct_not_found"},
                           modules[m].structs[k]) = 1

\* C15: a successful extract_function call on a buffer that declares
\* `fn name` several times removes one span of the buffer; the span holds
\* the first of the declarations and none of the later ones, which stay in
\* the remaining buffer.
C15_FirstOfSeveralRemoved ==
    FnCallOk /\ Cardinality(Declarations(fcall.arg, fcall.name)) >= 2 =>
        \E a \in 1..Len(fcall.arg) : \E b \in a..Len(fcall.arg) :
            /\ fcall.code = SubSeq(fcall.arg, a, b)
            /\ fcall.rest = SubSeq(fcall.arg, 1, a - 1)
                            \o SubSeq(fcall.arg, b + 1, Len(fcall.arg))
            /\ \A j \in Declarations(fcall.arg, fcall.name) :
                  (a <= j /\ j + 2 <= b)
                      <=> (\A i \in Declarations(fcall.arg, fcall.name) : j <= i)

\* C16 as stated: a module file has been written only when the extraction
\* of every module of the plan has finished.
C16_NoWriteBeforeAllExtracted ==
    (\E m \in Range(module_names) : Produced(m)) =>
        pc \in {"declare", "rewrite", "report", "done"}

\* the step writes the file of module m
WritesModuleFile(m) ==
    /\ Len(fslog') = Len(fslog) + 1
    /\ fslog'[Len(fslog')] = module_file(m)

\* C16: the file of a module is written by the step that ends the turn of
\* that module, when every function name and every struct name of the
\* module has been tried, and at no other time; the extraction of the
\* modules that follow in the plan takes place after that write.
C16_WriteAfterOwnExtraction ==
    [][\A m \in Range(module_names) :
          WritesModuleFile(m) =>
              /\ pc = "write" /\ module_name = m
              /\ fn_i > Len(modules[m].functions)
              /\ st_i > Len(modules[m].structs)
              /\ extracted_items = module_items[m]
              /\ pc' = (IF mod_i < Len(module_names) THEN "functions" ELSE "declare")
      ]_vars

\* C16 witness: the file of game is written, and a fragment of neural, a
\* later module, has been extracted after that write.
C16_Witness ==
    /\ Produced("game")
    /\ pc = "functions" /\ module_name = "neural"
    /\ module_items["neural"] # <<>>
    /\ ~Produced("neural")

\* the one-line header comment naming the module
HeaderLine(m) ==
    <<"//", " ", m, ".rs", " ", "-", " ", "Module", " ", "pour", " ", m, "\n">>

\* the position in the rendered text of the k-th item when the imports start
\* at position first
ItemAt(first, k) ==
    first + 2 * Cardinality(ExpectedImports) + 1
          + TotalLen(SubSeq(built.extracted_items, 1, k - 1)) + 2 * (k - 1)

\* the rendered text is the header line, gap blank lines, one line per
\* import, a blank line, and every item in the order received, each
\* followed by a line end and a blank line; nothing else
Layout(gap) ==
    \E first \in {Len(HeaderLine(built.module_name)) + gap + 1} :
    \E n \in {Cardinality(ExpectedImports)} :
        /\ Len(built.text) = first - 1 + 2 * n + 1
                             + TotalLen(built.extracted_items)
                             + 2 * Len(built.extracted_items)
        /\ SubSeq(built.text, 1, first - 1 - gap) = HeaderLine(built.module_name)
        /\ \A g \in 1..gap : built.text[first - g] = "\n"
        /\ \A k \in 1..n :
              /\ built.text[first + 2 * (k - 1)] \in ExpectedImports
              /\ built.text[first + 2 * k - 1] = "\n"
        /\ built.text[first + 2 * n] = "\n"
        /\ \A k \in 1..Len(built.extracted_items) :
              \E item \in {built.extracted_items[k]} :
                  /\ SubSeq(built.text, ItemAt(first, k),
                            ItemAt(first, k) + Len(item) - 1) = item
                  /\ built.text[ItemAt(first, k) + Len(item)] = "\n"
                  /\ built.text[ItemAt(first, k) + Len(item) + 1] = "\n"

\* C17 as stated: the rendered text is the header line, directly followed by
\* the import lines, a blank line and the items with their separators.
C17_HeaderThenImports ==
    built.made => Layout(0)

\* C17: the rendered text is the header line, a blank line, the import
\* lines, a blank line, and every item in the order received, each followed
\* by a blank-line separator; with no items it ends with the blank line
\* after the imports.
C17_HeaderBlankImportsItems ==
    built.made => Layout(1)

\* C17 witness: a text rendered from two different items.
C17_Witness ==
    /\ built.made
    /\ Len(built.extracted_items) = 2
    /\ built.extracted_items[1] # built.extracted_items[2]
    /\ Len(built.text) > Len(HeaderLine(built.module_name))

\* C17 witness of the empty case: a text rendered from no item.
C17_WitnessEmpty ==
    /\ built.made
    /\ built.extracted_items = <<>>
    /\ built.text # <<>>

\* the module is in the list of files printed at the end of the run
Listed(m) == \E k \in 1..Len(log) : log[k] = [msg |-> "file", name |-> m]

\* C18: at the end of a run the list of files holds the file of a module if
\* and only if the run wrote that file; a module file left over from before
\* the run, of a module for which nothing was extracted, is not in the list.
C18_ReportListsWrittenFiles ==
    pc = "done" => \A m \in Range(module_names) : Listed(m) <=> Produced(m)

\* C19: in a run on an existing main.rs the path of main.rs is written once,
\* by the last write of the run, after the backup and after every module
\* file; until that write main.rs on disk holds what it held before the run.
C19_OriginalWrittenOnceLast ==
    original.exists =>
        /\ pc \in {"report", "done"} =>
              /\ Writes(main_file) = 1
              /\ fslog[Len(fslog)] = main_file
              /\ fslog[1] = backup_file
              /\ \A m \in Range(module_names) :
                    module_items[m] # <<>> => Produced(m)
        /\ pc \notin {"report", "done"} =>
              /\ Writes(main_file) = 0
              /\ files[main_file] = original

\* C19 witness: a finished run that wrote the backup, two module files and
\* then main.rs.
C19_Witness ==
    /\ original.exists /\ pc = "done"
    /\ Len(fslog) = 4
    /\ fslog[Len(fslog)] = main_file
    /\ Writes(main_file) = 1

TypeOK == pc \in {"calls", "build", "start", "aborted", "backup", "read", "functions", "structs",
                  "write", "declare", "rewrite", "report", "done"}
====
